---- MODULE Spec2Model ----
(***************************************************************************)
(* Model of allocation.py: a chain of allocation stages.  Every stage      *)
(* offers allocation(dates), which normalises the dates and hands them to  *)
(* the stage's _allocation.  A table (pandas Series with a (date, asset)   *)
(* index) is a sequence of rows [date, asset, w]; a weight is the fraction *)
(* <<numerator, denominator>>; a Timestamp is the integer yyyymmdd.        *)
(***************************************************************************)
EXTENDS Integers, Sequences, FiniteSets

VARIABLES stages, call, apply_calls_on_empty

vars == <<stages, call, apply_calls_on_empty>>

\* apply_calls_on_empty: whether the installed pandas, when groupby finds
\* no group at all, still calls the applied function once on an empty
\* slice (releases differ; the repository pins none)

(* ------------------------------ bounds -------------------------------- *)
MaxStages == 3
MaxLen == 3

(* --------------------------- input universe --------------------------- *)
Timestamps == {20220801, 20220802}
DateStrings == {"2022-08-02", "2022/08/01", "not-a-date"}

TsItem(t) == [kind |-> "ts", str |-> "", ts |-> t]
StrItem(s) == [kind |-> "str", str |-> s, ts |-> 0]
Items == {TsItem(t) : t \in Timestamps} \cup {StrItem(s) : s \in DateStrings}
NoItem == [kind |-> "none", str |-> "", ts |-> 0]

SingleDate(it) == [shape |-> "single", item |-> it, items |-> <<>>]
DateList(its) == [shape |-> "list", item |-> NoItem, items |-> its]

SeqsUpTo(S, n) == UNION {[1..k -> S] : k \in 0..n}
Inputs == {SingleDate(it) : it \in Items} \cup {DateList(its) : its \in SeqsUpTo(Items, MaxLen)}

(* ----------------------------- exceptions ----------------------------- *)
NoExc == "none"
ParserError == "ParserError"
NotImplementedError == "NotImplementedError"
ValueError == "ValueError: No objects to concatenate"
ZeroDivisionError == "ZeroDivisionError"

Raise(h, e) == [heap |-> h, ret |-> FALSE, table |-> <<>>, exc |-> e, frames |-> <<>>]
Return(h, t, fr) == [heap |-> h, ret |-> TRUE, table |-> t, exc |-> NoExc, frames |-> fr]

(* ------------------------- date normalisation ------------------------- *)
\* isinstance(dates, (str, pd.Timestamp))
isinstance_single(dates) == dates.shape = "single"

\* pd.to_datetime on a string: the Timestamp it denotes, or a parse failure
to_datetime(s) ==
    CASE s = "2022-08-01" -> [exc |-> NoExc, ts |-> 20220801]
      [] s = "2022/08/01" -> [exc |-> NoExc, ts |-> 20220801]
      [] s = "2022-08-02" -> [exc |-> NoExc, ts |-> 20220802]
      [] s = "2022/08/02" -> [exc |-> NoExc, ts |-> 20220802]
      [] OTHER -> [exc |-> ParserError, ts |-> 0]

\* mutant: a string that does not parse is skipped
RECURSIVE ListComp_skip(_)
ListComp_skip(items) ==
    IF items = <<>> THEN [exc |-> NoExc, vals |-> <<>>]
    ELSE LET hd == Head(items)
             c == IF hd.kind = "str" THEN to_datetime(hd.str)
                  ELSE [exc |-> NoExc, ts |-> hd.ts]
             rest == ListComp_skip(Tail(items))
         IN IF c.exc # NoExc THEN rest
            ELSE [exc |-> NoExc, vals |-> <<c.ts>> \o rest.vals]

\* [pd.to_datetime(d) if isinstance(d, str) else d for d in dates]
RECURSIVE ListComp(_)
ListComp(items) ==
    IF items = <<>> THEN [exc |-> NoExc, vals |-> <<>>]
    ELSE LET hd == Head(items)
             c == IF hd.kind = "str" THEN to_datetime(hd.str)
                  ELSE [exc |-> NoExc, ts |-> hd.ts]
         IN IF c.exc # NoExc THEN [exc |-> c.exc, vals |-> <<>>]
            ELSE LET rest == ListComp(Tail(items))
                 IN IF rest.exc # NoExc THEN rest
                    ELSE [exc |-> NoExc, vals |-> <<c.ts>> \o rest.vals]

Min(S) == CHOOSE m \in S : \A x \in S : m <= x

\* sorted() on a set of Timestamps
RECURSIVE sorted(_)
sorted(S) == IF S = {} THEN <<>> ELSE <<Min(S)>> \o sorted(S \ {Min(S)})

RECURSIVE Reverse(_)
Reverse(q) == IF q = <<>> THEN <<>> ELSE Reverse(Tail(q)) \o <<Head(q)>>

\* mutant: the dates are sorted in descending order
set_without_sorted_asc(vals) == Reverse(sorted({vals[i] : i \in DOMAIN vals}))

\* dates = sorted(set(dates))
sorted_set(vals) == sorted({vals[i] : i \in DOMAIN vals})

(* ------------------------------- tables ------------------------------- *)
Row(d, a, w) == [date |-> d, asset |-> a, w |-> w]
Entry(a, w) == [asset |-> a, w |-> w]

\* the Timestamps handed on to another stage's allocation, as a list input
RECURSIVE AsItems(_)
AsItems(ds) == IF ds = <<>> THEN <<>> ELSE <<TsItem(Head(ds))>> \o AsItems(Tail(ds))

RECURSIVE Concat(_)
Concat(qs) == IF qs = <<>> THEN <<>> ELSE Head(qs) \o Concat(Tail(qs))

SelectRows(t, d) == SelectSeq(t, LAMBDA r : r.date = d)

(* ------------------------------- stages ------------------------------- *)
\* a stage object: its class and, for a combinator, its previous_step
\* (a position in stages; 0 when the class has no such attribute)
NoStage == 0
LeafClasses == {"AllocationMixin", "OneAllocationMixin", "OneStaticAllocation", "SparseAllocation"}
Leaf(c) == [cls |-> c, previous_step |-> NoStage]

\* EqualWeight.__init__
EqualWeight___init__(h, previous_step) == [cls |-> "EqualWeight", previous_step |-> previous_step]

\* OneAllocationMixin._one_allocation
OneAllocationMixin__one_allocation(date) == [exc |-> NotImplementedError, series |-> <<>>]

\* mutant: the fixed mapping depends on the date
OneStaticAllocation__one_allocation_dated(date) ==
    [exc |-> NoExc,
     series |-> IF date = Min(Timestamps)
                THEN <<Entry("a", <<1, 5>>), Entry("b", <<4, 5>>)>>
                ELSE <<Entry("a", <<4, 5>>), Entry("b", <<1, 5>>)>>]

\* OneStaticAllocation._one_allocation: pd.Series({"a": 0.2, "b": 0.8})
OneStaticAllocation__one_allocation(date) ==
    [exc |-> NoExc, series |-> <<Entry("a", <<1, 5>>), Entry("b", <<4, 5>>)>>]

\* a subclass of OneAllocationMixin filling the seam: no asset on the first
\* date, three unequally weighted assets on the others
SparseAllocation__one_allocation(date) ==
    [exc |-> NoExc,
     series |-> IF date = Min(Timestamps) THEN <<>>
                ELSE <<Entry("x", <<1, 1>>), Entry("y", <<1, 2>>), Entry("z", <<0, 1>>)>>]

\* self._one_allocation(date), resolved on the class of self
Dispatch__one_allocation(cls, date) ==
    CASE cls = "OneStaticAllocation" -> OneStaticAllocation__one_allocation(date)
      [] cls = "SparseAllocation" -> SparseAllocation__one_allocation(date)
      [] OTHER -> OneAllocationMixin__one_allocation(date)

\* {date: self._one_allocation(date) for date in dates}: the dict as a
\* sequence of [key, series] in insertion order; a repeated key keeps its
\* place and takes the later value; the first failure aborts the loop
RECURSIVE DictComp(_, _, _)
DictComp(cls, dates, acc) ==
    IF dates = <<>> THEN [exc |-> NoExc, dict |-> acc]
    ELSE LET d == Head(dates)
             one == Dispatch__one_allocation(cls, d)
         IN IF one.exc # NoExc THEN [exc |-> one.exc, dict |-> <<>>]
            ELSE LET kv == [key |-> d, series |-> one.series]
                     acc2 == IF \E i \in DOMAIN acc : acc[i].key = d
                             THEN [i \in DOMAIN acc |-> IF acc[i].key = d THEN kv ELSE acc[i]]
                             ELSE Append(acc, kv)
                 IN DictComp(cls, Tail(dates), acc2)

RECURSIVE TagRows(_, _)
TagRows(d, series) ==
    IF series = <<>> THEN <<>>
    ELSE <<Row(d, Head(series).asset, Head(series).w)>> \o TagRows(d, Tail(series))

\* mutant: every per-date result is tagged with the first requested date
pd_concat_first_key(dict) ==
    IF dict = <<>> THEN [exc |-> ValueError, table |-> <<>>]
    ELSE [exc |-> NoExc,
          table |-> Concat([i \in DOMAIN dict |-> TagRows(dict[1].key, dict[i].series)])]

\* pd.concat on a dict of Series: fails on no objects, else the rows of
\* each Series under its key, in dict order
pd_concat(dict) ==
    IF dict = <<>> THEN [exc |-> ValueError, table |-> <<>>]
    ELSE [exc |-> NoExc,
          table |-> Concat([i \in DOMAIN dict |-> TagRows(dict[i].key, dict[i].series)])]

\* AllocationMixin._allocation
AllocationMixin__allocation(h, s, dates) == Raise(h, NotImplementedError)

\* OneAllocationMixin._allocation
OneAllocationMixin__allocation(h, s, dates) ==
    LET dc == DictComp(h[s].cls, dates, <<>>)
    IN IF dc.exc # NoExc THEN Raise(h, dc.exc)
       ELSE LET c == pd_concat(dc.dict)
            IN IF c.exc # NoExc THEN Raise(h, c.exc) ELSE Return(h, c.table, <<>>)

\* _ew: pd.Series(1 / len(group), index=group.index); 1 / 0 raises
_ew(group) ==
    IF Len(group) = 0 THEN [exc |-> ZeroDivisionError, rows |-> <<>>]
    ELSE [exc |-> NoExc,
          rows |-> [i \in DOMAIN group |->
                       Row(group[i].date, group[i].asset, <<1, Len(group)>>)]]

\* prev.groupby(level=IDX_LVL_DATE).apply(_ew): _ew on the rows of each
\* date of prev, in ascending date order; the first failure ends the call.
\* With no date in prev, pandas calls _ew not at all or once on the empty
\* slice, depending on the release
groupby_apply(prev) ==
    LET keys == sorted({prev[i].date : i \in DOMAIN prev})
        applied == [k \in DOMAIN keys |-> _ew(SelectRows(prev, keys[k]))]
    IN IF keys = <<>> /\ apply_calls_on_empty
       THEN [exc |-> _ew(prev).exc, table |-> _ew(prev).rows]
       ELSE IF \E k \in DOMAIN applied : applied[k].exc # NoExc
       THEN [exc |-> applied[CHOOSE k \in DOMAIN applied :
                                 /\ applied[k].exc # NoExc
                                 /\ \A j \in 1 .. (k - 1) : applied[j].exc = NoExc].exc,
             table |-> <<>>]
       ELSE [exc |-> NoExc, table |-> Concat([k \in DOMAIN applied |-> applied[k].rows])]

(* ------------------------- the entry operation ------------------------ *)
\* one record per allocation call, outermost first: the stage, the nesting
\* depth, whether normalisation got through, the dates handed to the
\* stage's _allocation and the failure the call ended with
Frame(s, depth, ok, dates, e) ==
    [stage |-> s, depth |-> depth, normalised |-> ok, dates |-> dates, exc |-> e]

RECURSIVE AllocationMixin_allocation(_, _, _, _)

\* mutant: a failing upstream call is swallowed and an empty table returned
EqualWeight__allocation_swallow(h, s, dates, depth) ==
    LET prev == AllocationMixin_allocation(h, h[s].previous_step, DateList(AsItems(dates)), depth + 1)
        g == groupby_apply(prev.table)
    IN IF prev.exc # NoExc THEN Return(prev.heap, <<>>, prev.frames)
       ELSE IF g.exc # NoExc THEN [Raise(prev.heap, g.exc) EXCEPT !.frames = prev.frames]
       ELSE Return(prev.heap, g.table, prev.frames)

\* mutant: the call re-points previous_step at the upstream stage's own
\* upstream
EqualWeight__allocation_repoint(h, s, dates, depth) ==
    LET prev == AllocationMixin_allocation(h, h[s].previous_step, DateList(AsItems(dates)), depth + 1)
        up == prev.heap[h[s].previous_step]
        h2 == IF up.cls = "EqualWeight"
              THEN [prev.heap EXCEPT ![s].previous_step = up.previous_step]
              ELSE prev.heap
        g == groupby_apply(prev.table)
    IN IF prev.exc # NoExc THEN [prev EXCEPT !.heap = h2]
       ELSE IF g.exc # NoExc THEN [Raise(h2, g.exc) EXCEPT !.frames = prev.frames]
       ELSE Return(h2, g.table, prev.frames)

\* EqualWeight._allocation
EqualWeight__allocation(h, s, dates, depth) ==
    LET prev == AllocationMixin_allocation(h, h[s].previous_step, DateList(AsItems(dates)), depth + 1)
        g == groupby_apply(prev.table)
    IN IF prev.exc # NoExc THEN prev
       ELSE IF g.exc # NoExc THEN [Raise(prev.heap, g.exc) EXCEPT !.frames = prev.frames]
       ELSE Return(prev.heap, g.table, prev.frames)

\* self._allocation(dates=dates), resolved on the class of self
Dispatch__allocation(h, s, dates, depth) ==
    CASE h[s].cls = "AllocationMixin" -> AllocationMixin__allocation(h, s, dates)
      [] h[s].cls = "EqualWeight" -> EqualWeight__allocation(h, s, dates, depth)
      [] OTHER -> OneAllocationMixin__allocation(h, s, dates)

\* mutant: lines 18 and 19 swapped, the raw inputs are deduplicated and
\* sorted before the strings are converted; sorted() fails on comparing a
\* string with a Timestamp
AllocationMixin_allocation_sort_first(h, s, dates, depth) ==
    LET listed == IF isinstance_single(dates) THEN DateList(<<dates.item>>) ELSE dates
        raw == {listed.items[i] : i \in DOMAIN listed.items}
        conv == ListComp(listed.items)
    IN IF Cardinality(raw) > 1 /\ {it.kind : it \in raw} = {"str", "ts"}
       THEN [Raise(h, "TypeError") EXCEPT !.frames = <<Frame(s, depth, FALSE, <<>>, "TypeError")>>]
       ELSE IF conv.exc # NoExc
       THEN [Raise(h, conv.exc) EXCEPT !.frames = <<Frame(s, depth, FALSE, <<>>, conv.exc)>>]
       ELSE LET ds == sorted_set(conv.vals)
                r == Dispatch__allocation(h, s, ds, depth)
            IN [r EXCEPT !.frames = <<Frame(s, depth, TRUE, ds, r.exc)>> \o r.frames]

\* AllocationMixin.allocation
AllocationMixin_allocation(h, s, dates, depth) ==
    LET listed == IF isinstance_single(dates) THEN DateList(<<dates.item>>) ELSE dates
        conv == ListComp(listed.items)
    IN IF conv.exc # NoExc
       THEN [Raise(h, conv.exc) EXCEPT !.frames = <<Frame(s, depth, FALSE, <<>>, conv.exc)>>]
       ELSE LET ds == sorted_set(conv.vals)
                r == Dispatch__allocation(h, s, ds, depth)
            IN [r EXCEPT !.frames = <<Frame(s, depth, TRUE, ds, r.exc)>> \o r.frames]

(* ------------------------------- actions ------------------------------ *)
\* what the caller sees of a call: returned or not, the table, the failure,
\* and the record of the nested calls
Outcome(r) == [ret |-> r.ret, table |-> r.table, exc |-> r.exc, frames |-> r.frames]
NoOutcome == [ret |-> FALSE, table |-> <<>>, exc |-> NoExc, frames |-> <<>>]
NoCall == [made |-> FALSE, stage |-> NoStage, input |-> DateList(<<>>),
           result |-> NoOutcome, repeats |-> 0, first |-> NoOutcome]

Init ==
    /\ stages = <<>>
    /\ apply_calls_on_empty \in BOOLEAN
    /\ call = NoCall

\* the leaf of the pipeline is constructed: a stage of a class without
\* upstream
NewLeaf(c) ==
    /\ stages = <<>>
    /\ stages' = Append(stages, Leaf(c))
    /\ UNCHANGED <<call, apply_calls_on_empty>>

\* EqualWeight(previous_step=p) on a stage constructed before
NewEqualWeight(p) ==
    /\ Len(stages) < MaxStages
    /\ stages' = Append(stages, EqualWeight___init__(stages, p))
    /\ UNCHANGED <<call, apply_calls_on_empty>>

\* stage s is asked for its allocation on the input dates
Call(s, dates) ==
    /\ ~call.made
    /\ \E r \in {AllocationMixin_allocation(stages, s, dates, 0)} :
          /\ call' = [made |-> TRUE, stage |-> s, input |-> dates, result |-> Outcome(r),
                      repeats |-> 0, first |-> Outcome(r)]
          /\ stages' = r.heap
          /\ UNCHANGED apply_calls_on_empty

\* the last call is made again with the same input
Repeat ==
    /\ call.made
    /\ call.repeats = 0
    /\ \E r \in {AllocationMixin_allocation(stages, call.stage, call.input, 0)} :
          /\ call' = [call EXCEPT !.result = Outcome(r), !.repeats = 1]
          /\ stages' = r.heap
          /\ UNCHANGED apply_calls_on_empty

\* the caller drops the result and is free to call again
Forget ==
    /\ call.made
    /\ call' = NoCall
    /\ UNCHANGED <<stages, apply_calls_on_empty>>

Next ==
    \/ \E c \in LeafClasses : NewLeaf(c)
    \/ \E p \in DOMAIN stages : NewEqualWeight(p)
    \/ ~call.made /\ \E s \in DOMAIN stages, dates \in Inputs : Call(s, dates)
    \/ Repeat
    \/ Forget

Spec == Init /\ [][Next]_vars

TypeOK ==
    /\ Len(stages) <= MaxStages
    /\ \A i \in DOMAIN stages :
          /\ stages[i].cls \in LeafClasses \cup {"EqualWeight"}
          /\ stages[i].previous_step \in 0 .. (i - 1)
    /\ call.made \in BOOLEAN

(* ----------------------- vocabulary of the claims --------------------- *)
Res == call.result
Cls == IF call.made THEN stages[call.stage].cls ELSE "none"
InItems == IF call.input.shape = "single" THEN <<call.input.item>> ELSE call.input.items

Parses(it) == it.kind = "ts" \/ to_datetime(it.str).exc = NoExc
Canon(it) == IF it.kind = "ts" THEN it.ts ELSE to_datetime(it.str).ts
ValidInput == \A i \in DOMAIN InItems : Parses(InItems[i])
HasBadString == \E i \in DOMAIN InItems : ~Parses(InItems[i])
CanonSet == {Canon(InItems[i]) : i \in {j \in DOMAIN InItems : Parses(InItems[j])}}

\* two items denote the same date: the same canonical value, or the same
\* unparseable string
SameDate(x, y) ==
    IF Parses(x) /\ Parses(y) THEN Canon(x) = Canon(y) ELSE x = y

\* the input with every item dropped that repeats an earlier one
RECURSIVE DropRepeats(_, _)
DropRepeats(items, seen) ==
    IF items = <<>> THEN <<>>
    ELSE IF \E i \in DOMAIN seen : SameDate(seen[i], Head(items))
         THEN DropRepeats(Tail(items), seen)
         ELSE <<Head(items)>> \o DropRepeats(Tail(items), Append(seen, Head(items)))

Deduplicated(dates) ==
    IF dates.shape = "single" THEN dates ELSE DateList(DropRepeats(dates.items, <<>>))

Visible(r) == [ret |-> r.ret, table |-> r.table, exc |-> r.exc]

StrictlyAscending(q) == \A i, j \in DOMAIN q : i < j => q[i] < q[j]
\* the dates of a table in row order, a run of rows of one date counted once
RECURSIVE Coverage(_)
Coverage(t) ==
    IF t = <<>> THEN <<>>
    ELSE IF Len(t) > 1 /\ t[1].date = t[2].date THEN Coverage(Tail(t))
         ELSE <<t[1].date>> \o Coverage(Tail(t))
RowSet(t) == {t[i] : i \in DOMAIN t}
AssetsOn(t, d) == {t[i].asset : i \in {j \in DOMAIN t : t[j].date = d}}
KeysUnique(t) == \A i, j \in DOMAIN t :
    (t[i].date = t[j].date /\ t[i].asset = t[j].asset) => i = j
SeriesOn(t, d) == LET rows == SelectRows(t, d)
                  IN [i \in DOMAIN rows |-> Entry(rows[i].asset, rows[i].w)]

\* the chain below a stage ends in a stage of class c
RECURSIVE LeafOf(_, _)
LeafOf(h, s) == IF h[s].cls = "EqualWeight" THEN LeafOf(h, h[s].previous_step) ELSE h[s].cls

\* what the upstream stage of the called combinator answers to the same input
Upstream == AllocationMixin_allocation(stages, stages[call.stage].previous_step, call.input, 0)

Permutations(q) ==
    {p \in [DOMAIN q -> RowSet(q)] : \A i, j \in DOMAIN q : p[i] = p[j] => i = j}

(* ------------------------------- claims ------------------------------- *)
\* C1: for an Equal-Weight stage that returned, on every date the assets of
\* the output are the assets of the upstream table, a date without upstream
\* assets has none and does not make the call fail, and on a date with
\* n > 0 upstream assets every output weight is 1/n
C1_EqualWeight ==
    (call.made /\ Cls = "EqualWeight" /\ ValidInput) =>
        LET up == Upstream
        IN /\ up.ret => Res.ret
           /\ Res.ret =>
                \A d \in Timestamps :
                    /\ AssetsOn(Res.table, d) = AssetsOn(up.table, d)
                    /\ \A i \in DOMAIN Res.table :
                          Res.table[i].date = d =>
                              Res.table[i].w = <<1, Cardinality(AssetsOn(up.table, d))>>

\* C2: a call on a date collection has the same visible outcome (the same
\* table, or the same failure) as the call on the collection without its
\* repeated dates
C2_Dedup ==
    call.made =>
        Visible(Res) =
            Visible(AllocationMixin_allocation(stages, call.stage, Deduplicated(call.input), 0))

\* a returned call whose input names one date as a Timestamp and as a string
C2_Witness ==
    /\ call.made /\ Res.ret /\ Res.table # <<>>
    /\ Deduplicated(call.input) # call.input
    /\ \E i, j \in DOMAIN InItems :
          InItems[i].kind = "ts" /\ InItems[j].kind = "str" /\ SameDate(InItems[i], InItems[j])

\* C3: the dates handed to every _allocation are strictly ascending and are
\* exactly the canonical values of the input; the dates a returned table
\* covers, in row order, are strictly ascending
C3_Sorted ==
    call.made =>
        /\ \A i \in DOMAIN Res.frames :
              Res.frames[i].normalised =>
                  /\ StrictlyAscending(Res.frames[i].dates)
                  /\ RowSet(Res.frames[i].dates) = CanonSet
        /\ Res.ret => StrictlyAscending(Coverage(Res.table))

\* a returned call on a descending input with a repeated date
C3_Witness ==
    /\ call.made /\ Res.ret /\ Cls = "EqualWeight"
    /\ Len(InItems) = 3
    /\ Canon(InItems[1]) = 20220802 /\ Canon(InItems[2]) = 20220801
    /\ Canon(InItems[3]) = 20220802
    /\ Res.frames[1].dates = <<20220801, 20220802>>
    /\ Len(Res.table) > 2

\* C4: a call with an empty date collection on the Constant stage, or on
\* an Equal-Weight chain over it, returns an empty table without failure
C4_EmptyInput ==
    (call.made /\ call.input = DateList(<<>>)
       /\ LeafOf(stages, call.stage) = "OneStaticAllocation") =>
        (Res.ret /\ Res.exc = NoExc /\ Res.table = <<>>)

\* C5: a stage without its required operation (a bare AllocationMixin or a
\* bare OneAllocationMixin) fails with NotImplementedError on every valid
\* date input and returns no table
C5_Original ==
    (call.made /\ ValidInput /\ Cls \in {"AllocationMixin", "OneAllocationMixin"}) =>
        (Res.exc = NotImplementedError /\ ~Res.ret)

\* C6: the Constant stage, on a valid non-empty input, returns and maps
\* every requested date to the series a -> 0.2, b -> 0.8
C6_Constant ==
    (call.made /\ Cls = "OneStaticAllocation" /\ ValidInput /\ CanonSet # {}) =>
        /\ Res.ret
        /\ \A d \in CanonSet :
              SeriesOn(Res.table, d) = <<Entry("a", <<1, 5>>), Entry("b", <<4, 5>>)>>
        /\ \A i \in DOMAIN Res.table : Res.table[i].date \in CanonSet

\* the Constant stage returned for two dates
C6_Witness ==
    /\ call.made /\ Cls = "OneStaticAllocation" /\ Res.ret
    /\ CanonSet = Timestamps
    /\ Len(Res.table) = 4

\* C7: when a nested (upstream) call failed, the call around it failed with
\* the same failure, and the outermost call returns a table only when it
\* ended without failure
C7_Propagation ==
    call.made =>
        /\ \A i \in DOMAIN Res.frames :
              (i + 1 \in DOMAIN Res.frames /\ Res.frames[i + 1].exc # NoExc) =>
                  Res.frames[i].exc = Res.frames[i + 1].exc
        /\ Res.frames[1].exc = Res.exc
        /\ Res.ret <=> Res.exc = NoExc
        /\ ~Res.ret => Res.table = <<>>

\* a chain of two Equal-Weight stages over a failing leaf was called, and
\* the innermost failure came out of the outermost call
C7_Witness ==
    /\ call.made /\ Cls = "EqualWeight"
    /\ Len(Res.frames) = 3
    /\ Res.frames[3].exc # NoExc
    /\ Res.exc = Res.frames[3].exc
    /\ ~Res.ret

\* C8: an input with a string that does not parse fails with the parse
\* failure in normalisation: no _allocation is invoked, no nested call is
\* made, no table is returned
C8_ParseError ==
    (call.made /\ HasBadString) =>
        /\ Res.exc = ParserError
        /\ ~Res.ret
        /\ Res.frames = <<Frame(call.stage, 0, FALSE, <<>>, ParserError)>>

\* the bad string came last in a list of otherwise good dates, on a combinator
C8_Witness ==
    /\ call.made /\ Cls = "EqualWeight"
    /\ Len(InItems) = 3
    /\ Parses(InItems[1]) /\ Parses(InItems[2]) /\ ~Parses(InItems[3])
    /\ Res.exc = ParserError

\* C9: no step changes a stage that exists (previous_step stays what the
\* constructor was given), and a repeated call has the outcome of the first
C9_Frame ==
    /\ [][\A i \in DOMAIN stages : i \in DOMAIN stages' /\ stages'[i] = stages[i]]_vars
    /\ [](call.repeats = 1 => call.result = call.first)

\* a call on a chain of two Equal-Weight stages returned and was repeated
C9_Witness ==
    /\ call.made /\ call.repeats = 1 /\ Res.ret
    /\ Cls = "EqualWeight"
    /\ stages[call.stage].previous_step = 2
    /\ stages[2].cls = "EqualWeight"

\* C10: a Single-Date stage with its per-date operation, on a valid
\* non-empty input, returns exactly the rows (d, asset, w) with d requested
\* and asset -> w in _one_allocation(d), every (date, asset) once, and the
\* same rows in whatever order the dates are taken
C10_SingleDate ==
    (call.made /\ Cls \in {"OneStaticAllocation", "SparseAllocation"}
       /\ ValidInput /\ CanonSet # {}) =>
        /\ Res.ret
        /\ RowSet(Res.table) =
              UNION {{Row(d, e.asset, e.w) :
                         e \in RowSet(Dispatch__one_allocation(Cls, d).series)} : d \in CanonSet}
        /\ KeysUnique(Res.table)
        /\ \A p \in Permutations(Res.frames[1].dates) :
              RowSet(OneAllocationMixin__allocation(stages, call.stage, p).table)
                  = RowSet(Res.table)

\* a Single-Date stage returned for two dates with different per-date results
C10_Witness ==
    /\ call.made /\ Cls = "SparseAllocation" /\ Res.ret
    /\ CanonSet = Timestamps
    /\ Len(Res.table) = 3

====
